---------------------------- MODULE Spec2Model ----------------------------
(***************************************************************************)
(* A model of the delayed synaptic propagation core of BrainPy / npbrain:  *)
(*   - coo_atomic_sum, the scatter-sum wrapper of brainpylib               *)
(*     (extensions/brainpylib/atomic_sum.py);                              *)
(*   - SynConn, the synaptic connection ensemble                           *)
(*     (npbrain/core_system/synapse_connection.py), with the AMPA synapse  *)
(*     steps of examples/synapses/AMPA_synapses.py running on it;          *)
(*   - the configuration of brainpy.math (brainpy/math/__init__.py): the   *)
(*     global time step and the backend.                                   *)
(*                                                                         *)
(* Numeric values are exact integers: a float32/float64 array is modelled  *)
(* by its dtype name and a sequence of integers; only the division         *)
(* delay / dt of the constructor is computed as float64 computes it.       *)
(* Arrays are 0-based in the source and 1-based sequences here: element i  *)
(* of the source is element i+1 of the sequence, identifiers (neuron and   *)
(* synapse indices) keep their 0-based values.                             *)
(***************************************************************************)
EXTENDS Integers, Sequences, FiniteSets, TLC

VARIABLES
  call,     \* the arguments of the coo_atomic_sum call under way
  bound,    \* whether that call has bound the primitive coo_atomic_sum_p1
  ret,      \* what that call returned or raised ("pending" before it)
  dt,       \* profile's global time step (brainpy.math's __dt)
  args,     \* the arguments of the SynConn constructor
  syn,      \* the SynConn object: the fields __init__ set, or the error it raised
  ST,       \* syn.ST, the synapse state with its delay ring
  pre,      \* the presynaptic group's state: pre['sp']
  post,     \* the postsynaptic group's state: post['V'], post['inp']
  net,      \* the network around syn: its phase, clock and place in the step plan
  hist,     \* the calls made so far: what each step pushed, pulled and ran
  model,    \* the synapse type syn is made of: "ampa1" or "ampa2"
  BACKEND_NAME,  \* brainpy.math's global BACKEND_NAME
  got       \* the last call of brainpy.math's configuration: what it returned or raised

sumVars == <<call, bound, ret>>

synVars == <<dt, args, syn, ST, pre, post, net, hist, model>>

cfgVars == <<BACKEND_NAME, got>>

vars == <<call, bound, ret, dt, args, syn, ST, pre, post, net, hist, model,
          BACKEND_NAME, got>>

-----------------------------------------------------------------------------
(* Bounds of the model                                                     *)

MaxEdges == 2        \* longest edge list (len(post_ids)) given to coo_atomic_sum
MaxId == 2           \* largest neuron index in pre_ids and post_ids
MaxTypedEdges == 1   \* longest edge list for which every dtype combination is tried
MaxNeu == 2          \* largest neuron group given to SynConn
MaxSyn == 2          \* longest edge list given to SynConn
MaxRunNeu == 1       \* largest neuron group of the connections that are run for MaxSteps
MaxDelay == 3        \* longest conduction delay, in ms
MaxSteps == 5        \* longest simulation, in steps

-----------------------------------------------------------------------------
(* Generic helpers                                                         *)

RECURSIVE SeqSum(_)
SeqSum(s) == IF s = <<>> THEN 0 ELSE Head(s) + SeqSum(Tail(s))

SeqsUpTo(S, n) == UNION {[1..k -> S] : k \in 0..n}

Max(S) == CHOOSE x \in S : \A y \in S : y <= x

Range(s) == {s[i] : i \in DOMAIN s}

Perms(n) == {p \in [1..n -> 1..n] : \A i, j \in 1..n : p[i] = p[j] => i = j}

PermTable == [n \in 0..(MaxEdges + 1) |-> Perms(n)]

Permute(s, p) == [i \in DOMAIN s |-> s[p[i]]]


-----------------------------------------------------------------------------
(* coo_atomic_sum: extensions/brainpylib/atomic_sum.py                     *)
(*                                                                         *)
(* A call is a record                                                      *)
(*   [values, vdtype, post_ids, post_dtype, post_num,                      *)
(*    pre_given, pre_ids, pre_dtype]                                       *)
(* where pre_given = FALSE stands for pre_ids=None.  A scalar `values` and *)
(* a one-element vector take the same path through the wrapper (line 29    *)
(* tests jnp.size, line 44 wraps a 0-d value into a one-element array), so *)
(* both are the one-element sequence.  A result is a record                *)
(* [kind, err, out]: kind "ok" with the output array, kind "error" with    *)
(* the exception raised, or kind "undefined" when the native kernel reads  *)
(* outside `values` (no outcome is defined for that read).                 *)

Ok(out) == [kind |-> "ok", err |-> "", out |-> out]

Raise(e) == [kind |-> "error", err |-> e, out |-> <<>>]

Undefined == [kind |-> "undefined", err |-> "", out |-> <<>>]

Pending == [kind |-> "pending", err |-> "", out |-> <<>>]

IdDtypes == {"uint32", "uint64", "int64"}

ValueDtypes == {"float32", "float64", "int32"}

RECURSIVE SumOver(_, _)
SumOver(f, S) ==
  IF S = {} THEN 0
  ELSE LET k == CHOOSE x \in S : TRUE IN f[k] + SumOver(f, S \ {k})

(* The native kernels behind the custom call (lib/ of brainpylib, not part *)
(* of the Python sources).  Section 4.5 of the specification gives their   *)
(* contract: out[d] is the sum of the edge values whose destination is d,  *)
(* 0 for an unreferenced destination, IndexOutOfRange for a destination    *)
(* index >= post_num.  The heterogeneous kernel receives `values` together *)
(* with pre_ids (lines 95-99) and the wrapper requires                     *)
(* values.size > pre_ids.max() (line 50): the value of edge k is           *)
(* values[pre_ids[k]].  The homogeneous kernel receives no pre_ids         *)
(* (lines 110-113): every edge has the value values[0].                    *)
coo_atomic_sum_heter(values, pre_ids, post_ids, conn_size, post_num) ==
  IF \E k \in 1..conn_size : post_ids[k] >= post_num
    THEN Raise("IndexOutOfRange")
  ELSE IF \E k \in 1..conn_size : pre_ids[k] >= Len(values)
    THEN Undefined
  ELSE Ok([d \in 1..post_num |->
             SumOver([k \in 1..conn_size |-> values[pre_ids[k] + 1]],
                     {k \in 1..conn_size : post_ids[k] = d - 1})])

coo_atomic_sum_homo(values, post_ids, conn_size, post_num) ==
  IF \E k \in 1..conn_size : post_ids[k] >= post_num
    THEN Raise("IndexOutOfRange")
  ELSE Ok([d \in 1..post_num |->
             SumOver([k \in 1..conn_size |-> values[1]],
                     {k \in 1..conn_size : post_ids[k] = d - 1})])

(* _atomic_sum_translation, platform "cpu": conn_size is the length of     *)
(* post_ids (line 71); a one-element `values` dispatches to the            *)
(* homogeneous kernel, anything else to the heterogeneous one (86, 92).    *)
(* The custom call's last two operands are conn_size then post_num.        *)
TranslationSwappedIds(values, pre_ids, post_ids, post_num) ==
  IF Len(values) # 1
    THEN coo_atomic_sum_heter(values, post_ids, pre_ids, Len(post_ids), post_num)
    ELSE coo_atomic_sum_homo(values, post_ids, Len(post_ids), post_num)

TranslationOutSize(values, pre_ids, post_ids, post_num) ==
  IF Len(values) # 1
    THEN coo_atomic_sum_heter(values, pre_ids, post_ids, Len(post_ids), post_num + 1)
    ELSE coo_atomic_sum_homo(values, post_ids, Len(post_ids), post_num + 1)

atomic_sum_translation(values, pre_ids, post_ids, post_num) ==
  IF Len(values) # 1
    THEN coo_atomic_sum_heter(values, pre_ids, post_ids, Len(post_ids), post_num)
    ELSE coo_atomic_sum_homo(values, post_ids, Len(post_ids), post_num)

(* Line 39 and line 45: the accepted element types.                        *)
PostDtypeOk(d) == d \in {"uint32", "uint64"}

ValuesDtypeAny(d) == TRUE

ValuesDtypeOk(d) == d \in {"float32", "float64"}

(* Line 50: pre_ids.max().  Only evaluated on a non-empty array.           *)
PreIdsFirst(ids) == ids[1]

PreIdsMax(ids) == Max(Range(ids))

(* Lines 29-32: the index array paired with post_ids.  With a one-element  *)
(* `values` the pre_ids argument is dropped and post_ids takes its place.  *)
EffectivePreIds(c) == IF Len(c.values) # 1 THEN c.pre_ids ELSE c.post_ids

EffectivePreDtype(c) == IF Len(c.values) # 1 THEN c.pre_dtype ELSE c.post_dtype

(* Lines 29-52: the validation of coo_atomic_sum, check by check in the    *)
(* order of the code.  The exception raised, or "" when line 55 is reached.*)
coo_atomic_sum_checks(c) ==
  LET size1 == Len(c.values) = 1
      pre_ids == EffectivePreIds(c)
  IN  IF ~size1 /\ ~c.pre_given
        THEN "AssertionError: must provide pre_ids"
      ELSE IF Len(pre_ids) # Len(c.post_ids)
        THEN "ValueError: length"
      ELSE IF EffectivePreDtype(c) # c.post_dtype
        THEN "ValueError: dtype of pre_ids"
      ELSE IF ~PostDtypeOk(c.post_dtype)
        THEN "ValueError: dtype of post_ids"
      ELSE IF ~ValuesDtypeOk(c.vdtype)
        THEN "ValueError: dtype of values"
      ELSE IF ~size1 /\ pre_ids = <<>>
        THEN "ValueError: max of an empty array"
      ELSE IF ~size1 /\ Len(c.values) <= PreIdsMax(pre_ids)
        THEN "ValueError: size of values"
      ELSE ""

(* coo_atomic_sum, lines 27-55: the primitive is bound (line 55) only      *)
(* after every check has passed.                                           *)
coo_atomic_sum(c) ==
  IF coo_atomic_sum_checks(c) # ""
    THEN Raise(coo_atomic_sum_checks(c))
    ELSE atomic_sum_translation(c.values, EffectivePreIds(c), c.post_ids, c.post_num)

(* The arguments of a call. *)
Ids == 0..MaxId

ValuesOfSize(m) == [i \in 1..m |-> i]

Call(values, vd, post_ids, pd, n, given, pre_ids, prd) ==
  [values |-> values, vdtype |-> vd, post_ids |-> post_ids, post_dtype |-> pd,
   post_num |-> n, pre_given |-> given, pre_ids |-> pre_ids, pre_dtype |-> prd]

-----------------------------------------------------------------------------
(* Python integers beyond 32 bits: `num` is compared with 2 ** 64          *)
(* (synapse_connection.py line 97).  An integer is a sign and five limbs   *)
(* of 16 bits, least significant first.                                    *)

BigOf(n) ==
  [neg |-> n < 0, limbs |-> <<IF n < 0 THEN -n ELSE n, 0, 0, 0, 0>>]

Two64 == [neg |-> FALSE, limbs |-> <<0, 0, 0, 0, 1>>]

Two64Minus1 == [neg |-> FALSE, limbs |-> <<65535, 65535, 65535, 65535, 0>>]

MagLess(a, b) ==
  \E i \in 1..5 : /\ a.limbs[i] < b.limbs[i]
                  /\ \A j \in (i + 1)..5 : a.limbs[j] = b.limbs[j]

BigLess(a, b) ==
  IF a.neg /\ ~b.neg THEN TRUE
  ELSE IF ~a.neg /\ b.neg THEN FALSE
  ELSE IF a.neg THEN MagLess(b, a)
  ELSE MagLess(a, b)

(* The value of an integer that fits the first limb. *)
SmallOf(a) == IF a.neg THEN -a.limbs[1] ELSE a.limbs[1]

IsSmall(a) == \A i \in 2..5 : a.limbs[i] = 0

-----------------------------------------------------------------------------
(* SynConn: npbrain/core_system/synapse_connection.py                      *)
(*                                                                         *)
(* The constructor's arguments are a record                                *)
(*   [pre, post, conn, num, delay, steps]                                  *)
(* pre, post: the size of the neuron group, 0 for None;                    *)
(* conn: [kind, i, j, mat], kind "none" (None), "dict" ({'i': i, 'j': j})  *)
(*       or "matrix" (a 2-D array, a sequence of rows);                    *)
(* num: [given, val], given = FALSE for None;                              *)
(* delay: [kind, val], kind "none" (None), "number" (a whole number of     *)
(*        ms), "float" (a float literal) or "other";                       *)
(* steps: the number of steps the network is then run for, in all.         *)

NoConn == [kind |-> "none", i |-> <<>>, j |-> <<>>, mat |-> <<>>]

DictConn(i, j) == [kind |-> "dict", i |-> i, j |-> j, mat |-> <<>>]

MatrixConn(mat) == [kind |-> "matrix", i |-> <<>>, j |-> <<>>, mat |-> mat]

NoNum == [given |-> FALSE, val |-> BigOf(0)]

Num(v) == [given |-> TRUE, val |-> v]

NoDelay == [kind |-> "none", val |-> 0]

(* A delay of d ms, d a whole number, used with a dt of 1 or 2 ms.         *)
Delay(d) == [kind |-> "number", val |-> d]

(* A delay given as the float literal repr, used with dt a PyFloat.        *)
FloatDelay(repr) == [kind |-> "float", val |-> repr]

OtherDelay == [kind |-> "other", val |-> 0]

Args(pre_num, post_num, conn, num, delay, steps) ==
  [pre |-> pre_num, post |-> post_num, conn |-> conn, num |-> num,
   delay |-> delay, steps |-> steps]

(* The SynConn object.  status "unbuilt" before __init__ ran, "ok" after   *)
(* it returned, "error" after it raised err.  wired: pre, post, pre2syn    *)
(* and post2syn are set (lines 88-93), which __init__ does only when both  *)
(* groups are given.                                                       *)
Unbuilt ==
  [status |-> "unbuilt", err |-> "", num |-> 0, wired |-> FALSE,
   pre2syn |-> <<>>, post2syn |-> <<>>, pre_ids |-> <<>>, post_ids |-> <<>>,
   delay_len |-> 0]

Failed(e) == [Unbuilt EXCEPT !.status = "error", !.err = e]

(* Lines 65-85: the edge list read from conn, or the exception raised.     *)
Edges(e, i, j) == [err |-> e, pre_idx |-> i, post_idx |-> j]

(* Lines 68-79, conn a 2-D array.  After the shape assertion, line 74      *)
(* iterates enumerate(pre_group.num): pre_group.num is an int, and         *)
(* enumerate of an int raises TypeError before any edge is read.           *)
MatrixEdges(a) ==
  LET rows == Len(a.conn.mat)
      cols == IF rows = 0 THEN 0 ELSE Len(a.conn.mat[1])
  IN  IF ~(rows = a.pre /\ cols = a.post)
        THEN Edges("AssertionError: shape of conn", <<>>, <<>>)
        ELSE Edges("TypeError: 'int' object is not iterable", <<>>, <<>>)

ConnEdges(a) ==
  IF a.conn.kind = "none"
    THEN Edges("AssertionError: conn must be provided", <<>>, <<>>)
  ELSE IF a.conn.kind = "matrix" THEN MatrixEdges(a)
  ELSE Edges("", a.conn.i, a.conn.j)

(* connectivity.pre2syn / post2syn (npbrain/connectivity, not among the    *)
(* sources): section 4.1, "derive pre2syn/post2syn by grouping synapse     *)
(* indices by endpoint, preserving edge insertion order".  IndicesFrom is  *)
(* the synapse indices k-1 >= from-1 with idx[k] = v, in edge order.       *)
RECURSIVE IndicesFrom(_, _, _)
IndicesFrom(idx, v, from) ==
  IF from > Len(idx) THEN <<>>
  ELSE (IF idx[from] = v THEN <<from - 1>> ELSE <<>>) \o IndicesFrom(idx, v, from + 1)

pre2syn(pre_idx, post_idx, num_pre) ==
  [i \in 1..num_pre |-> IndicesFrom(pre_idx, i - 1, 1)]

post2syn(pre_idx, post_idx, num_post) ==
  [j \in 1..num_post |-> IndicesFrom(post_idx, j - 1, 1)]

(* An endpoint that is no neuron of its group cannot be grouped: section   *)
(* 4.4, "size mismatches between connected populations are detected at     *)
(* construction time".                                                     *)
EndpointsInRange(pre_idx, post_idx, num_pre, num_post) ==
  /\ \A k \in DOMAIN pre_idx : pre_idx[k] < num_pre
  /\ \A k \in DOMAIN post_idx : post_idx[k] < num_post

(* Lines 88-89: the two maps as __init__ asks for them.                    *)
SynConn_pre2syn_by_post(pre_idx, post_idx, pre_num) ==
  [i \in 1..pre_num |-> IndicesFrom(post_idx, i - 1, 1)]

SynConn_pre2syn(pre_idx, post_idx, pre_num) == pre2syn(pre_idx, post_idx, pre_num)

SynConn_post2syn(pre_idx, post_idx, post_num) == post2syn(pre_idx, post_idx, post_num)

(* Line 97: assert 0 < num < 2 ** 64.                                      *)
NumValidOrZero(num) == ~BigLess(num, BigOf(0)) /\ BigLess(num, Two64)

NumValid(num) == BigLess(BigOf(0), num) /\ BigLess(num, Two64)

(* Natural numbers below 2^80, for the arithmetic of float64 values: a     *)
(* sequence of NLimbs digits in base LimbBase = 2^LimbBits, the least      *)
(* significant first.                                                      *)
NLimbs == 4

LimbBits == 20

LimbBase == 2 ^ LimbBits

Limbs(digits) == [i \in 1..NLimbs |-> IF i <= Len(digits) THEN digits[i] ELSE 0]

NatOfInt(n) == Limbs(<<n % LimbBase, n \div LimbBase>>)

NatLess(x, y) ==
  \E i \in 1..NLimbs : x[i] < y[i] /\ \A j \in (i + 1)..NLimbs : x[j] = y[j]

(* Digit i of x, 0 beyond the most significant digit.                      *)
Digit(x, i) == IF i \in 1..NLimbs THEN x[i] ELSE 0

(* The carry out of digit i of x * c, and x * c, for a c below 2^10.       *)
RECURSIVE MulCarry(_, _, _)
MulCarry(x, c, i) ==
  IF i = 0 THEN 0 ELSE (x[i] * c + MulCarry(x, c, i - 1)) \div LimbBase

NatMulSmall(x, c) ==
  [i \in 1..NLimbs |-> (x[i] * c + MulCarry(x, c, i - 1)) % LimbBase]

(* The borrow out of digit i of x - y, and x - y, for y <= x.              *)
RECURSIVE SubBorrow(_, _, _)
SubBorrow(x, y, i) ==
  IF i = 0 THEN 0
  ELSE IF x[i] - y[i] - SubBorrow(x, y, i - 1) < 0 THEN 1 ELSE 0

NatSub(x, y) ==
  [i \in 1..NLimbs |-> (x[i] - y[i] - SubBorrow(x, y, i - 1)) % LimbBase]

(* x * 2^bits for bits < LimbBits, and the whole part of x / 2^bits.       *)
NatShl(x, bits) ==
  [i \in 1..NLimbs |->
     (x[i] % (2 ^ (LimbBits - bits))) * (2 ^ bits)
       + Digit(x, i - 1) \div (2 ^ (LimbBits - bits))]

NatShr(x, bits) ==
  LET skip == bits \div LimbBits
      b == bits % LimbBits
  IN  [i \in 1..NLimbs |->
         Digit(x, i + skip) \div (2 ^ b)
           + (Digit(x, i + skip + 1) % (2 ^ b)) * (2 ^ (LimbBits - b))]

(* A non-negative float64 value is m * 2^e, m a natural number below 2^53. *)
(* Float64(repr) is the value of the Python literal repr.                  *)
Float64(repr) ==
  CASE repr = "0.0" -> [m |-> Limbs(<<0>>), e |-> -52]
      [] repr = "0.1" -> [m |-> Limbs(<<629146, 629145, 6553>>), e |-> -56]
      [] repr = "0.3" -> [m |-> Limbs(<<209715, 209715, 4915>>), e |-> -54]
      [] repr = "0.9" -> [m |-> Limbs(<<838861, 838860, 7372>>), e |-> -53]
      [] repr = "1.0" -> [m |-> Limbs(<<0, 0, 4096>>), e |-> -52]
      [] repr = "2.0" -> [m |-> Limbs(<<0, 0, 4096>>), e |-> -51]

(* float(n) of a small whole number n.                                     *)
FloatOfInt(n) == [m |-> NatOfInt(n), e |-> 0]

(* The largest whole quotient delay / dt the model works out.              *)
MaxQuotient == 24

(* The binary exponent of a whole number n >= 1: 2^k <= n < 2^(k+1).       *)
RECURSIVE Log2(_)
Log2(n) == IF n < 2 THEN 0 ELSE 1 + Log2(n \div 2)

(* delay / dt as two naturals upon a common power of two, the whole part   *)
(* of their quotient and the remainder.                                    *)
Quotient(delay, dtv) ==
  LET d == delay.e - dtv.e
      num == NatShl(delay.m, IF d > 0 THEN d ELSE 0)
      den == NatShl(dtv.m, IF d < 0 THEN -d ELSE 0)
      n == CHOOSE n \in 0..MaxQuotient :
             /\ ~NatLess(num, NatMulSmall(den, n))
             /\ NatLess(num, NatMulSmall(den, n + 1))
  IN  [num |-> num, den |-> den, whole |-> n,
       rest |-> NatSub(num, NatMulSmall(den, n))]

(* int(np.floor(delay / dt)).                                              *)
DelayLenFloor(delay, dtv) == Quotient(delay, dtv).whole

(* Lines 103-105 for a numeric delay >= 0 and dt > 0:                      *)
(* int(np.ceil(delay / dt)).  The float64 quotient is the exact quotient   *)
(* rounded to 53 bits, to nearest and to even on a tie: a quotient above   *)
(* the whole number n >= 1 by at most half of the step 2^(k-52) between    *)
(* the floats from n on (2^k <= n) is rounded to n, and its ceil is n.     *)
DelayLen(delay, dtv) ==
  LET q == Quotient(delay, dtv)
      n == q.whole
  IN  IF q.rest = NatOfInt(0) THEN n
      ELSE IF n >= 1 /\ ~NatLess(NatShr(q.den, 53 - Log2(n)), q.rest) THEN n
      ELSE n + 1

(* types.SynState (npbrain/core_system/types, not among the sources),      *)
(* from section 3 and 4.3: per variable an array of `size` values, for the *)
(* delayed variable a ring of delay+1 slots, and the cursor pair: delay_in *)
(* the slot written by push, delay_out the slot read by pull, delay_out    *)
(* trailing delay_in by `delay` slots.  Values start at 0.                 *)
Zeros(n) == [k \in 1..n |-> 0]

SynState(size, delay) ==
  [s |-> Zeros(size),
   cond_delay |-> [r \in 1..(delay + 1) |-> Zeros(size)],
   delay_in |-> delay, delay_out |-> 0, ring |-> delay + 1]

NoST == [s |-> <<>>, cond_delay |-> <<>>, delay_in |-> 0, delay_out |-> 0, ring |-> 0]

push_cond(st, val) == [st EXCEPT !.cond_delay[st.delay_in + 1] = val]

pull_cond(st) == st.cond_delay[st.delay_out + 1]

update_delay_indices(st) ==
  [st EXCEPT !.delay_in = (st.delay_in + 1) % st.ring,
             !.delay_out = (st.delay_out + 1) % st.ring]

(* Line 117: the state container is made for `num` synapses with the delay *)
(* computed at lines 101-108.                                              *)
SynConn_ST_longer(num, delay_len) == SynState(num, delay_len + 1)

SynConn_ST(num, delay_len) == SynState(num, delay_len)

(* SynConn.__init__, lines 41-117, in the order of the code.  An array of  *)
(* the order of 2 ** 64 entries cannot be allocated: such a num passes     *)
(* line 97 and fails at line 117.                                          *)
SynConn_init(a, dtv) ==
  LET both == a.pre # 0 /\ a.post # 0
      e == ConnEdges(a)
      num == IF both THEN BigOf(Len(e.pre_idx)) ELSE a.num.val
      delay_len == IF a.delay.kind = "none" THEN 0
                   ELSE IF a.delay.kind = "float"
                     THEN DelayLen(Float64(a.delay.val), Float64(dtv.repr))
                   ELSE DelayLen(FloatOfInt(a.delay.val), FloatOfInt(dtv))
  IN  IF both /\ e.err # "" THEN Failed(e.err)
      ELSE IF both /\ ~EndpointsInRange(e.pre_idx, e.post_idx, a.pre, a.post)
        THEN Failed("IndexError: endpoint out of range")
      ELSE IF ~both /\ ~a.num.given
        THEN Failed("AssertionError: num must be provided")
      ELSE IF ~NumValid(num)
        THEN Failed("AssertionError: num must be a valid number in uint64")
      ELSE IF a.delay.kind = "other"
        THEN Failed("ValueError: other kinds of delay")
      ELSE IF ~IsSmall(num)
        THEN Failed("MemoryError")
      ELSE [status |-> "ok", err |-> "", num |-> SmallOf(num), wired |-> both,
            pre2syn |-> IF both THEN SynConn_pre2syn(e.pre_idx, e.post_idx, a.pre)
                        ELSE <<>>,
            post2syn |-> IF both THEN SynConn_post2syn(e.pre_idx, e.post_idx, a.post)
                         ELSE <<>>,
            pre_ids |-> IF both THEN e.pre_idx ELSE <<>>,
            post_ids |-> IF both THEN e.post_idx ELSE <<>>,
            delay_len |-> delay_len]

(* BaseEnsemble._merge_steps (base_objects, not among the sources): the    *)
(* ensemble's calls of one simulation step in the fixed sub-order of       *)
(* section 4.4.                                                            *)
BaseEnsemble_merge_steps == <<"input", "update", "output", "monitor">>

(* SynConn._merge_steps, lines 119-122: the cursor advance is appended.    *)
SynConn_merge_steps_first(codes_of_calls) ==
  <<"ST._update_delay_indices">> \o codes_of_calls

SynConn_merge_steps(codes_of_calls) ==
  Append(codes_of_calls, "ST._update_delay_indices")

Plan == SynConn_merge_steps(BaseEnsemble_merge_steps)

-----------------------------------------------------------------------------
(* The AMPA synapse of examples/synapses/AMPA_synapses.py, type 1.         *)
(*                                                                         *)
(* The conductance s is counted in units of 1 / Unit so that the Euler     *)
(* step with tau_decay = 2 * dt (a halving) is exact over MaxSteps steps.  *)
(* The parameters are define_ampa1_group's arguments (line 13), here       *)
(* g_max = 1, E = 0 and tau_decay = 2 ms.                                  *)

Unit == 2 ^ MaxSteps

AmpaPars == [g_max |-> 1, E |-> 0, tau_decay |-> 2]

(* Lines 32-34 under nb.integrate(method='euler') (integration, not among  *)
(* the sources; section 4.2: x' = x + dt * f(x, t)) with f = -s/tau_decay. *)
ints(s, dtv) == s - (s * dtv) \div AmpaPars.tau_decay

(* post_cond_by_post2syn, lines 129-135: g_val[i] = syn_val[post2syn[i]]   *)
(* assigns the selected sub-array to one entry of g_val, which numpy       *)
(* accepts only for a selection of exactly one element.                    *)
post_cond_by_post2syn(syn_val, p2s) ==
  IF \E j \in DOMAIN p2s : Len(p2s[j]) # 1
    THEN Raise("ValueError: setting an array element with a sequence")
    ELSE Ok([j \in DOMAIN p2s |-> syn_val[p2s[j][1] + 1]])

(* update, lines 50-57: the new s of every synapse.  Each spiking          *)
(* presynaptic neuron i adds 1 to the synapses of pre2syn[i].              *)
ampa1_update_s(st, pre_sp, p2s, dtv) ==
  [k \in DOMAIN st.s |->
     ints(st.s[k], dtv)
       + Unit * Cardinality({i \in DOMAIN p2s :
                               pre_sp[i] > 0 /\ (k - 1) \in Range(p2s[i])})]

(* output, lines 59-63, given g_val: the new post['inp'].                  *)
ampa1_output_inp_assigned(g_val, post_st) ==
  [j \in DOMAIN post_st.inp |->
     -AmpaPars.g_max * g_val[j] * (post_st.V[j] - AmpaPars.E)]

ampa1_output_inp(g_val, post_st) ==
  [j \in DOMAIN post_st.inp |->
     post_st.inp[j] + (-AmpaPars.g_max * g_val[j] * (post_st.V[j] - AmpaPars.E))]

(* The AMPA synapse of type 2, lines 71-125.  The parameters are           *)
(* define_ampa2_group's arguments (line 71), here g_max = 1, E = 0, T = 1, *)
(* T_duration = 1 ms and alpha = beta = 1 / (2 ms), written as the         *)
(* time constants tau_alpha = 1 / alpha and tau_beta = 1 / beta, so that   *)
(* the Euler step stays exact in units of 1 / Unit.                        *)
Ampa2Pars == [g_max |-> 1, E |-> 0, tau_alpha |-> 2, tau_beta |-> 2, T |-> 1,
              T_duration |-> 1]

(* Line 98: the initial values of the synapse state of type 2.             *)
Ampa2Init == [s |-> 0, sp_t |-> -10000000]

(* SynState(vars_init): the container has one array per variable of the    *)
(* model's ST requirement: 's' for type 1 (line 40), 's' and 'sp_t' for    *)
(* type 2 (lines 97-98).                                                   *)
vars_init(mdl, st) ==
  IF mdl = "ampa2"
    THEN [s |-> st.s, sp_t |-> [k \in DOMAIN st.s |-> Ampa2Init.sp_t],
          cond_delay |-> st.cond_delay, delay_in |-> st.delay_in,
          delay_out |-> st.delay_out, ring |-> st.ring]
    ELSE st

(* Lines 92-94 under nb.integrate(method='euler'):                         *)
(* f = alpha * TT * (1 - s) - beta * s.                                    *)
int_s(s, TT, dtv) ==
  s + ((TT * (Unit - s) * dtv) \div Ampa2Pars.tau_alpha)
    - ((s * dtv) \div Ampa2Pars.tau_beta)

clip(x, lo, hi) == IF x < lo THEN lo ELSE IF x > hi THEN hi ELSE x

(* update, lines 109-116, before the push: the new sp_t and s.  The spike  *)
(* time of the synapses of every spiking presynaptic neuron becomes _t_.   *)
ampa2_update(st, pre_sp, p2s, t, dtv) ==
  LET sp_t == [k \in DOMAIN st.s |->
                 IF \E i \in DOMAIN p2s : pre_sp[i] > 0 /\ (k - 1) \in Range(p2s[i])
                   THEN t ELSE st.sp_t[k]]
      TT == [k \in DOMAIN st.s |->
               IF t - sp_t[k] < Ampa2Pars.T_duration THEN Ampa2Pars.T ELSE 0]
  IN  [st EXCEPT !.sp_t = sp_t,
                 !.s = [k \in DOMAIN st.s |-> clip(int_s(st.s[k], TT[k], dtv), 0, Unit)]]

(* output, lines 119-123, given g_val: the new post['inp'].                *)
ampa2_output_inp(g_val, post_st) ==
  [j \in DOMAIN post_st.inp |->
     post_st.inp[j] + (-Ampa2Pars.g_max * g_val[j] * (post_st.V[j] - Ampa2Pars.E))]

-----------------------------------------------------------------------------
(* The network around one SynConn (core_system/network, not among the      *)
(* sources; section 4.4).  net is [phase, t, pos, left, mon, runs]:        *)
(* phase "unbuilt", "idle", "running", "failed" (the constructor raised)   *)
(* or "crashed" (a step raised and aborted run()); t the steps completed   *)
(* so far (the clock is t * dt); pos the place in Plan of the next call of *)
(* the step under way; left the steps the current run() still has to do;   *)
(* mon the monitor's record of ST['s']; runs the calls of run() so far.    *)
(* hist is [pushed, pulled, ran, advances]: the value each step's update   *)
(* pushed, the value each step's output pulled, the calls of the step      *)
(* under way in the order they ran, and the number of cursor advances.     *)

NoNet == [phase |-> "unbuilt", t |-> 0, pos |-> 1, left |-> 0, mon |-> <<>>,
          runs |-> 0]

NoHist == [pushed |-> <<>>, pulled |-> <<>>, ran |-> <<>>, advances |-> 0]

NoGroup == [sp |-> <<>>, V |-> <<>>, inp |-> <<>>]

(* A neuron group's state before the first step: no spike, no input, the   *)
(* membrane potential at -1.                                               *)
GroupState(n) == [sp |-> Zeros(n), V |-> [j \in 1..n |-> -1], inp |-> Zeros(n)]

NoCall == Call(<<>>, "float32", <<>>, "uint32", 0, FALSE, <<>>, "uint32")

IdleSum == call = NoCall /\ ret = Pending /\ bound = FALSE

(* A Python value: the name of its type and its repr.                      *)
Py(type, repr) == [type |-> type, repr |-> repr]

PyNone == Py("NoneType", "None")

PyFloat(repr) == Py("float", repr)

PyStr(repr) == Py("str", repr)

(* got is [op, arg, kind, val]: the function of brainpy.math called last,  *)
(* its argument, and the value it returned (kind "ok") or the exception it *)
(* raised (kind "raise").                                                  *)
NoGot == [op |-> "", arg |-> PyNone, kind |-> "none", val |-> PyNone]

IdleCfg == BACKEND_NAME = "numpy" /\ got = NoGot

IdleSyn ==
  /\ model = "ampa1"
  /\ dt = 1
  /\ args = Args(0, 0, NoConn, NoNum, NoDelay, 0)
  /\ syn = Unbuilt
  /\ ST = NoST
  /\ pre = NoGroup
  /\ post = NoGroup
  /\ net = NoNet
  /\ hist = NoHist

Bits == {0, 1}

NumArgs == {NoNum, Num(BigOf(-1)), Num(BigOf(0)), Num(BigOf(1)), Num(BigOf(2)),
            Num(Two64Minus1), Num(Two64)}

(* Both groups given, every kind of conn, run for one step.                *)
ConnArgs ==
  \E pre_num \in 1..MaxNeu, post_num \in 1..MaxNeu, num \in {NoNum, Num(BigOf(1))} :
    \/ args = Args(pre_num, post_num, NoConn, num, Delay(0), 1)
    \/ \E len \in 0..MaxSyn :
         \E i \in [1..len -> 0..(MaxNeu - 1)], j \in [1..len -> 0..(MaxNeu - 1)] :
           args = Args(pre_num, post_num, DictConn(i, j), num, Delay(0), 1)
    \/ \E rows \in 1..MaxNeu, cols \in 1..MaxNeu :
         \E mat \in [1..rows -> [1..cols -> Bits]] :
           args = Args(pre_num, post_num, MatrixConn(mat), num, Delay(0), 1)

(* At most one group given: the ensemble's size comes from num.            *)
NumOnlyArgs ==
  \E pre_num \in 0..1, num \in NumArgs, conn \in {NoConn, DictConn(<<0>>, <<0>>)} :
    args = Args(pre_num, 0, conn, num, NoDelay, 0)

(* One synapse between two neurons, every kind of delay.                   *)
DelayArgs ==
  \E delay \in {NoDelay, OtherDelay} \cup {Delay(d) : d \in 0..MaxDelay} :
    args = Args(1, 1, DictConn(<<0>>, <<0>>), NoNum, delay, 1)

(* Small connections with every delay, run for MaxSteps steps.             *)
RunArgs ==
  \E pre_num \in 1..MaxRunNeu, post_num \in 1..MaxRunNeu, len \in 1..MaxSyn :
    \E i \in [1..len -> 0..(pre_num - 1)], j \in [1..len -> 0..(post_num - 1)] :
      \E d \in 0..MaxDelay :
        args = Args(pre_num, post_num, DictConn(i, j), NoNum, Delay(d), MaxSteps)

InitSyn ==
  /\ IdleSum
  /\ IdleCfg
  /\ \/ dt = 1 /\ model = "ampa1" /\ (ConnArgs \/ NumOnlyArgs)
     \/ dt = 1 /\ model \in {"ampa1", "ampa2"} /\ RunArgs
     \/ dt \in {1, 2} /\ model = "ampa1" /\ DelayArgs
  /\ syn = Unbuilt
  /\ ST = NoST
  /\ pre = NoGroup
  /\ post = NoGroup
  /\ net = NoNet
  /\ hist = NoHist

(* SynConn(...): __init__ and, when it returns, the groups' states it      *)
(* refers to (lines 92-93).                                                *)
Construct ==
  /\ net.phase = "unbuilt"
  /\ LET made == SynConn_init(args, dt)
     IN  /\ syn' = made
         /\ ST' = IF made.status = "ok"
                    THEN vars_init(model, SynConn_ST(made.num, made.delay_len))
                  ELSE NoST
         /\ pre' = IF made.wired THEN GroupState(args.pre) ELSE NoGroup
         /\ post' = IF made.wired THEN GroupState(args.post) ELSE NoGroup
         /\ net' = [net EXCEPT !.phase = IF made.status = "ok" THEN "idle"
                                         ELSE "failed"]
  /\ UNCHANGED <<model, dt, args, hist>>
  /\ UNCHANGED sumVars
  /\ UNCHANGED cfgVars

(* Network.run(duration) for duration = k * dt, started at clock 0.        *)
RunFromZero ==
  /\ net.phase = "idle"
  /\ syn.wired
  /\ \E k \in 1..(args.steps - net.t) :
       net' = [net EXCEPT !.phase = "running", !.left = k, !.pos = 1,
                          !.runs = @ + 1, !.t = 0]
  /\ UNCHANGED <<model, dt, args, syn, ST, pre, post, hist>>
  /\ UNCHANGED sumVars
  /\ UNCHANGED cfgVars

(* Network.run(duration) for duration = k * dt: the call goes on from the  *)
(* clock the network has.                                                  *)
Run ==
  /\ net.phase = "idle"
  /\ syn.wired
  /\ \E k \in 1..(args.steps - net.t) :
       net' = [net EXCEPT !.phase = "running", !.left = k, !.pos = 1,
                          !.runs = @ + 1]
  /\ UNCHANGED <<model, dt, args, syn, ST, pre, post, hist>>
  /\ UNCHANGED sumVars
  /\ UNCHANGED cfgVars

NextCallIs(name) ==
  /\ net.phase = "running"
  /\ net.pos <= Len(Plan)
  /\ Plan[net.pos] = name

Ran(name) == [hist EXCEPT !.ran = Append(@, name)]

(* The input step: the run's input ('pre.sp', waveform, '=') overwrites    *)
(* the spike variable of every presynaptic neuron by the waveform's value  *)
(* of this step.                                                           *)
StepInput ==
  /\ NextCallIs("input")
  /\ \E b \in Bits : pre' = [pre EXCEPT !.sp = [i \in DOMAIN pre.sp |-> b]]
  /\ net' = [net EXCEPT !.pos = @ + 1]
  /\ hist' = Ran("input")
  /\ UNCHANGED <<model, dt, args, syn, ST, post>>
  /\ UNCHANGED sumVars
  /\ UNCHANGED cfgVars

(* update(ST, _t_, pre, pre2syn), AMPA_synapses.py lines 50-57 (type 1)    *)
(* and 109-117 (type 2): ST['s'] = s, then ST.push_cond(s).                *)
StepUpdate ==
  /\ NextCallIs("update")
  /\ LET new == IF model = "ampa1"
                  THEN [ST EXCEPT !.s = ampa1_update_s(ST, pre.sp, syn.pre2syn, dt)]
                ELSE ampa2_update(ST, pre.sp, syn.pre2syn, net.t * dt, dt)
     IN  /\ ST' = push_cond(new, new.s)
         /\ hist' = [Ran("update") EXCEPT !.pushed = Append(@, new.s)]
  /\ net' = [net EXCEPT !.pos = @ + 1]
  /\ UNCHANGED <<model, dt, args, syn, pre, post>>
  /\ UNCHANGED sumVars
  /\ UNCHANGED cfgVars

(* output(ST, post, post2syn), AMPA_synapses.py lines 59-63 (type 1) and   *)
(* 119-123 (type 2).  An exception of post_cond_by_post2syn aborts the     *)
(* run.                                                                    *)
StepOutput ==
  /\ NextCallIs("output")
  /\ LET g == pull_cond(ST)
         g_val == post_cond_by_post2syn(g, syn.post2syn)
     IN  /\ hist' = [Ran("output") EXCEPT !.pulled = Append(@, g)]
         /\ IF g_val.kind = "ok"
              THEN /\ post' = [post EXCEPT !.inp =
                                   IF model = "ampa1"
                                     THEN ampa1_output_inp(g_val.out, post)
                                   ELSE ampa2_output_inp(g_val.out, post)]
                   /\ net' = [net EXCEPT !.pos = @ + 1]
              ELSE /\ post' = post
                   /\ net' = [net EXCEPT !.phase = "crashed"]
  /\ UNCHANGED <<model, dt, args, syn, ST, pre>>
  /\ UNCHANGED sumVars
  /\ UNCHANGED cfgVars

(* The monitor step records ST['s'].                                       *)
StepMonitor ==
  /\ NextCallIs("monitor")
  /\ net' = [net EXCEPT !.pos = @ + 1, !.mon = Append(@, ST.s)]
  /\ hist' = Ran("monitor")
  /\ UNCHANGED <<model, dt, args, syn, ST, pre, post>>
  /\ UNCHANGED sumVars
  /\ UNCHANGED cfgVars

(* ST._update_delay_indices().                                             *)
StepDelay ==
  /\ NextCallIs("ST._update_delay_indices")
  /\ ST' = update_delay_indices(ST)
  /\ net' = [net EXCEPT !.pos = @ + 1]
  /\ hist' = [Ran("ST._update_delay_indices") EXCEPT !.advances = @ + 1]
  /\ UNCHANGED <<model, dt, args, syn, pre, post>>
  /\ UNCHANGED sumVars
  /\ UNCHANGED cfgVars

(* The end of one simulation step: the clock moves on, and run() returns   *)
(* after its last step.                                                    *)
Tick ==
  /\ net.phase = "running"
  /\ net.pos = Len(Plan) + 1
  /\ net' = [net EXCEPT !.t = @ + 1, !.left = @ - 1, !.pos = 1,
                        !.phase = IF net.left = 1 THEN "idle" ELSE "running"]
  /\ hist' = [hist EXCEPT !.ran = <<>>]
  /\ UNCHANGED <<model, dt, args, syn, ST, pre, post>>
  /\ UNCHANGED sumVars
  /\ UNCHANGED cfgVars

Next ==
  \/ Construct
  \/ Run
  \/ StepInput
  \/ StepUpdate
  \/ StepOutput
  \/ StepMonitor
  \/ StepDelay
  \/ Tick

Spec == InitSyn /\ [][Next]_vars

-----------------------------------------------------------------------------
(* The calls of coo_atomic_sum that are tried.                             *)

(* Well-typed calls over every edge list of at most MaxEdges edges, with   *)
(* pre_ids either as long as post_ids or absent (None).                    *)
InitSum ==
  /\ \E m \in 0..(MaxId + 1), n \in 0..(MaxId + 1), len \in 0..MaxEdges :
       \E post_ids \in [1..len -> Ids] :
         \/ \E pre_ids \in [1..len -> Ids] :
              call = Call(ValuesOfSize(m), "float32", post_ids, "uint32", n,
                          TRUE, pre_ids, "uint32")
         \/ call = Call(ValuesOfSize(m), "float32", post_ids, "uint32", n,
                        FALSE, <<>>, "uint32")
  /\ ret = Pending
  /\ bound = FALSE
  /\ IdleSyn
  /\ IdleCfg

(* Calls of every dtype combination, with pre_ids (when given) and         *)
(* post_ids of independent lengths of at most MaxTypedEdges.               *)
InitSumTypes ==
  /\ \E m \in 0..(MaxId + 1), n \in 0..(MaxId + 1) :
       \E vd \in ValueDtypes, pd \in IdDtypes :
         \E post_ids \in SeqsUpTo(Ids, MaxTypedEdges) :
           \/ \E prd \in IdDtypes, pre_ids \in SeqsUpTo(Ids, MaxTypedEdges) :
                call = Call(ValuesOfSize(m), vd, post_ids, pd, n, TRUE, pre_ids, prd)
           \/ call = Call(ValuesOfSize(m), vd, post_ids, pd, n, FALSE, <<>>, pd)
  /\ ret = Pending
  /\ bound = FALSE
  /\ IdleSyn
  /\ IdleCfg

(* One call: the checks, then the bind of the primitive and its result.    *)
CallAtomicSum ==
  /\ ret = Pending
  /\ bound' = (coo_atomic_sum_checks(call) = "")
  /\ ret' = coo_atomic_sum(call)
  /\ UNCHANGED call
  /\ UNCHANGED synVars
  /\ UNCHANGED cfgVars

NextSum == CallAtomicSum

SpecSum == InitSum /\ [][NextSum]_vars

SpecSumTypes == InitSumTypes /\ [][NextSum]_vars

-----------------------------------------------------------------------------
(* Claims about coo_atomic_sum                                             *)

EdgeCount == Len(call.post_ids)

(* The edges k (1-based) whose destination is d. *)
EdgesTo(d) == {k \in 1..EdgeCount : call.post_ids[k] = d}

(* The value of edge k (1-based): values[k] read by edge number, or        *)
(* values[pre_ids[k]] read by the presynaptic index of the edge; a single  *)
(* value is the value of every edge.                                       *)
EdgeValue(by, k) ==
  IF Len(call.values) = 1 THEN call.values[1]
  ELSE IF by = "edge" THEN call.values[k]
  ELSE call.values[EffectivePreIds(call)[k] + 1]

(* The values of the edges k, k+1, ... into d, in edge order. *)
RECURSIVE Gather(_, _, _)
Gather(by, d, k) ==
  IF k > EdgeCount THEN <<>>
  ELSE IF call.post_ids[k] = d THEN <<EdgeValue(by, k)>> \o Gather(by, d, k + 1)
  ELSE Gather(by, d, k + 1)

PermutedCall(p) ==
  [call EXCEPT !.post_ids = Permute(call.post_ids, p),
               !.pre_ids = IF call.pre_given THEN Permute(call.pre_ids, p) ELSE <<>>]

IndexOutOfRangeCase == \E k \in 1..EdgeCount : call.post_ids[k] >= call.post_num

DtypeErrors == {"ValueError: dtype of pre_ids", "ValueError: dtype of post_ids",
                "ValueError: dtype of values"}

IsUInt(d) == d = "uint32" \/ d = "uint64"

IsFloat(d) == d = "float32" \/ d = "float64"

PreDtypeDiffers == call.pre_given /\ call.pre_dtype # call.post_dtype

(* C4 as stated: the call fails, before the primitive is bound, whenever   *)
(* pre_ids and post_ids differ in dtype, post_ids is not uint32/uint64 or  *)
(* values is not float32/float64; the primitive is bound only when the     *)
(* three dtype conditions and len(pre_ids) = len(post_ids) hold.  (Which   *)
(* of several applicable errors is raised is left open here.)              *)
C4_DtypeErrorAlways ==
  ret.kind # "pending" =>
    /\ (PreDtypeDiffers \/ ~IsUInt(call.post_dtype) \/ ~IsFloat(call.vdtype))
         => (~bound /\ ret.kind = "error")
    /\ bound => /\ ~PreDtypeDiffers
                /\ IsUInt(call.post_dtype)
                /\ IsFloat(call.vdtype)
                /\ call.pre_given => Len(call.pre_ids) = Len(call.post_ids)

(* C4 amended: the call fails before the primitive is bound whenever       *)
(* post_ids is not uint32/uint64, values is not float32/float64, or values *)
(* has other than one element and pre_ids differs from post_ids in dtype;  *)
(* the error is a dtype error unless an earlier check (pre_ids missing,    *)
(* unequal lengths) fails first.  With a one-element values the pre_ids    *)
(* argument is replaced by post_ids, and neither its dtype nor its length  *)
(* is checked.  The primitive is bound only when post_ids is               *)
(* uint32/uint64, values is float32/float64 and, for values of other than  *)
(* one element, pre_ids is given with the dtype and the length of post_ids.*)
C4_DtypeChecked ==
  LET many == Len(call.values) # 1
      earlier == many /\ (~call.pre_given \/ Len(call.pre_ids) # Len(call.post_ids))
  IN  ret.kind # "pending" =>
        /\ ((many /\ PreDtypeDiffers) \/ ~IsUInt(call.post_dtype)
              \/ ~IsFloat(call.vdtype))
             => /\ ~bound
                /\ ret.kind = "error"
                /\ ~earlier => ret.err \in DtypeErrors
        /\ bound => /\ IsUInt(call.post_dtype)
                    /\ IsFloat(call.vdtype)
                    /\ many => /\ call.pre_given
                               /\ call.pre_dtype = call.post_dtype
                               /\ Len(call.pre_ids) = Len(call.post_ids)

(* A call with vector values rejected for the dtype of pre_ids, the        *)
(* primitive left unbound.                                                 *)
C4_Witness ==
  /\ ~bound
  /\ ret = Raise("ValueError: dtype of pre_ids")
  /\ Len(call.values) > 1
  /\ IsUInt(call.post_dtype)
  /\ IsFloat(call.vdtype)

-----------------------------------------------------------------------------
(* Claims about SynConn and its delay ring                                 *)

Built == syn.status = "ok"

AdvanceCall == "ST._update_delay_indices"

(* How many times `name` ran in the step under way. *)
TimesRan(name) == Cardinality({n \in DOMAIN hist.ran : hist.ran[n] = name})

(* C5: with delay_len = L, the value pulled by the output of step m is the *)
(* value pushed by the update of step m - L, and the initial value (0)     *)
(* while m < L; so post['inp'] keeps its initial value until the output of *)
(* step L has run: with L = 3 a spike of step 0 first shows at step 3.     *)
(* (hist.pushed[m], hist.pulled[m] belong to step m - 1.)                  *)
C5_DelayedPull ==
  Built =>
    /\ \A m \in DOMAIN hist.pulled :
         hist.pulled[m] = IF m > syn.delay_len THEN hist.pushed[m - syn.delay_len]
                          ELSE Zeros(syn.num)
    /\ Len(hist.pulled) <= syn.delay_len => post.inp = Zeros(Len(post.inp))

(* One neuron to one neuron, delay_len = 3, a spike at step 0 and none     *)
(* after: the output of step 3 has pulled the value pushed at step 0 and   *)
(* post['inp'] has left 0.                                                 *)
C5_Witness ==
  /\ Built
  /\ syn.delay_len = 3
  /\ syn.num = 1
  /\ Len(hist.pulled) = 4
  /\ hist.pushed[1] = <<Unit>>
  /\ hist.pulled[4] = <<Unit>>
  /\ post.inp # <<0>>
  /\ net.t = 3

(* C6: both cursors stay inside the ring of delay_len + 1 slots and        *)
(* delay_out trails delay_in by delay_len slots modulo the ring length.    *)
C6_CursorsInRing ==
  Built =>
    /\ 0 <= ST.delay_in /\ ST.delay_in < syn.delay_len + 1
    /\ 0 <= ST.delay_out /\ ST.delay_out < syn.delay_len + 1
    /\ (ST.delay_out + syn.delay_len) % (syn.delay_len + 1) = ST.delay_in

(* A ring of three slots whose cursors have gone round at least once.      *)
C6_Witness ==
  /\ Built
  /\ syn.delay_len = 2
  /\ hist.advances >= 4
  /\ ST.delay_in < ST.delay_out

(* C7: in every simulation step the cursor advance runs at most once and   *)
(* only after input, update, output and monitor of that step; a completed  *)
(* step has run it exactly once; each run moves both cursors one slot on,  *)
(* modulo delay_len + 1.                                                   *)
C7_AdvanceOncePerStepLast ==
  Built =>
    /\ TimesRan(AdvanceCall) <= 1
    /\ TimesRan(AdvanceCall) = 1 =>
         hist.ran = <<"input", "update", "output", "monitor", AdvanceCall>>
    /\ Len(hist.ran) = 5 => TimesRan(AdvanceCall) = 1
    /\ hist.advances = net.t + TimesRan(AdvanceCall)
    /\ ST.delay_in = (syn.delay_len + hist.advances) % (syn.delay_len + 1)
    /\ ST.delay_out = hist.advances % (syn.delay_len + 1)

(* The second simulation step of a connection with a delay, completed.     *)
C7_Witness ==
  /\ Built
  /\ syn.delay_len >= 1
  /\ net.t = 1
  /\ Len(hist.ran) = 5
  /\ hist.advances = 2

(* How many times synapse k is listed in the entries of map m. *)
Listed(m, k) ==
  Cardinality({<<n, x>> \in UNION {{n} \X DOMAIN m[n] : n \in DOMAIN m} :
                 m[n][x] = k})

RECURSIVE TotalLen(_, _)
TotalLen(m, n) == IF n = 0 THEN 0 ELSE Len(m[n]) + TotalLen(m, n - 1)

MapsPartition ==
  (Built /\ syn.wired) =>
    /\ Len(syn.pre_ids) = syn.num /\ Len(syn.post_ids) = syn.num
    /\ \A k \in 0..(syn.num - 1) :
         /\ Listed(syn.pre2syn, k) = 1
         /\ k \in Range(syn.pre2syn[syn.pre_ids[k + 1] + 1])
         /\ Listed(syn.post2syn, k) = 1
         /\ k \in Range(syn.post2syn[syn.post_ids[k + 1] + 1])
    /\ TotalLen(syn.pre2syn, Len(syn.pre2syn)) = syn.num
    /\ TotalLen(syn.post2syn, Len(syn.post2syn)) = syn.num

(* C8: every synapse index k < num is listed exactly once in pre2syn, in   *)
(* the entry of pre_ids[k], and exactly once in post2syn, in the entry of  *)
(* post_ids[k]; both maps have num entries in all, num the number of       *)
(* edges; and no step after the construction changes either map.           *)
C8_MapsPartitionForever ==
  /\ [](MapsPartition)
  /\ [][Built => (syn'.pre2syn = syn.pre2syn /\ syn'.post2syn = syn.post2syn)]_vars

(* Two synapses from one neuron of a group of two, after one step.         *)
C8_Witness ==
  /\ Built
  /\ syn.wired
  /\ syn.num = 2
  /\ Len(syn.pre2syn) = 2
  /\ \E i \in DOMAIN syn.pre2syn : Len(syn.pre2syn[i]) = 2
  /\ net.t = 1

(* The edges a dense matrix stands for: (i, j) with conn[i][j] > 0.        *)
MatrixPairs(mat) ==
  {<<i - 1, j - 1>> : <<i, j>> \in {p \in (DOMAIN mat) \X (1..Len(mat[1])) :
                                      mat[p[1]][p[2]] > 0}}

(* C9: with conn a dense matrix the construction fails for a shape other   *)
(* than (pre_group.num, post_group.num); with that shape (and a positive   *)
(* entry) it succeeds, pre_ids and post_ids are equally long and hold one  *)
(* edge (i, j) for every positive conn[i][j] and no other edge.            *)
C9_MatrixEdges ==
  (net.phase # "unbuilt" /\ args.conn.kind = "matrix" /\ args.pre # 0 /\ args.post # 0) =>
    LET mat == args.conn.mat
    IN  IF ~(Len(mat) = args.pre /\ Len(mat[1]) = args.post)
          THEN syn.status = "error"
        ELSE MatrixPairs(mat) # {} =>
               /\ Built
               /\ Len(syn.pre_ids) = Len(syn.post_ids)
               /\ Len(syn.pre_ids) = Cardinality(MatrixPairs(mat))
               /\ {<<syn.pre_ids[k], syn.post_ids[k]>> : k \in DOMAIN syn.pre_ids}
                    = MatrixPairs(mat)

BothGroups == args.pre # 0 /\ args.post # 0

(* C10: a constructed SynConn has 0 < num < 2^64.  The construction fails  *)
(* when conn gives no edge, when num is 0, negative or 2^64 and more, and  *)
(* when neither both groups nor num are given.  With both groups num is    *)
(* the number of edges whatever the num argument, otherwise it is the num  *)
(* argument, in every state after the construction.                        *)
C10_NumFixedAndPositive ==
  /\ Built => (0 < syn.num /\ BigLess(BigOf(syn.num), Two64))
  /\ net.phase # "unbuilt" =>
       IF BothGroups
         THEN /\ (args.conn.kind = "dict" /\ args.conn.i = <<>>) => ~Built
              /\ Built => syn.num = Len(args.conn.i)
         ELSE /\ ~args.num.given => ~Built
              /\ ~BigLess(BigOf(0), args.num.val) => ~Built
              /\ ~BigLess(args.num.val, Two64) => ~Built
              /\ Built => BigOf(syn.num) = args.num.val

(* Both groups and two edges, the num argument 1: num is 2, also after a   *)
(* step.                                                                   *)
C10_Witness ==
  /\ Built
  /\ BothGroups
  /\ args.num = Num(BigOf(1))
  /\ syn.num = 2
  /\ net.t = 1

(* The call `name` of the step plan has just run.                          *)
DidCall(name) == hist'.ran = Append(hist.ran, name)

(* What output adds to post['inp'][j] when it does not raise: the pulled   *)
(* conductance of the synapse of neuron j times -g_max * (V - E), with     *)
(* g_max = 1 and E = 0.                                                    *)
Injected(j) ==
  hist'.pulled[Len(hist'.pulled)][syn.post2syn[j][1] + 1] * (-post.V[j])

(* C11: for both AMPA types the update step leaves every variable of pre   *)
(* and of post as it was (it writes ST and its delay ring only), and the   *)
(* output step leaves pre, post['V'] and ST as they were and changes       *)
(* post['inp'] only by adding the injected current to it.                  *)
C11_SynapseStepsFrame ==
  [][/\ DidCall("update") => (pre' = pre /\ post' = post)
     /\ DidCall("output") =>
          /\ pre' = pre
          /\ ST' = ST
          /\ post'.V = post.V
          /\ post'.sp = post.sp
          /\ DOMAIN post'.inp = DOMAIN post.inp
          /\ \/ post' = post /\ net'.phase = "crashed"
             \/ \A j \in DOMAIN post.inp : post'.inp[j] = post.inp[j] + Injected(j)]_vars

(* A synapse of type 2 in its second step: the update has written ST and   *)
(* the ring, the output has added to a post['inp'] that was not 0.         *)
C11_Witness ==
  /\ Built
  /\ model = "ampa2"
  /\ net.t = 1
  /\ hist.ran = <<"input", "update", "output">>
  /\ pre.sp = <<1>>
  /\ ST.s # Zeros(syn.num)
  /\ hist.pulled[1] # Zeros(syn.num)
  /\ hist.pulled[2] # Zeros(syn.num)
  /\ post.inp[1] > hist.pulled[2][1]

(* C12: run() can be called again whenever the network is idle; a call     *)
(* starts at the clock at which the call before it ended (the clock never  *)
(* goes back and is not reset to 0), does the steps it was asked for, and  *)
(* leaves the network idle, with no step under way, at its return.         *)
C12_RunContinuesClock ==
  /\ [][/\ net'.t >= net.t
        /\ net'.runs # net.runs =>
             /\ net.phase = "idle" /\ net'.phase = "running"
             /\ net'.runs = net.runs + 1
             /\ net'.t = net.t
             /\ net'.left >= 1
        /\ (net.phase = "running" /\ net'.phase = "idle") =>
             (net.left = 1 /\ net'.t = net.t + 1)]_vars
  /\ [](net.phase = "idle" => (net.left = 0 /\ net.pos = 1 /\ hist.ran = <<>>))
  /\ [](net.phase = "running" => net.left >= 1)

(* Three calls of run() on one network, the third under way at clock 3.    *)
C12_Witness ==
  /\ net.runs = 3
  /\ net.phase = "running"
  /\ net.t = 3
  /\ net.left = 2
  /\ Len(net.mon) = 3

-----------------------------------------------------------------------------
(* brainpy.math's configuration (brainpy/math/__init__.py): the step size  *)
(* __dt and the backend name with its drivers.                             *)

(* Line 13: __dt = 0.1.                                                    *)
InitialDt == PyFloat("0.1")

(* The float values given to set_dt.                                       *)
DtFloats == {"0.1", "0.3", "1.0"}

(* The arguments set_dt is tried with: floats, and values of other types.  *)
DtArgs ==
  {PyFloat(r) : r \in DtFloats}
    \cup {Py("int", "1"), Py("bool", "True"), PyStr("0.1"), PyNone}

(* Lines 45-58: _backend_to_drivers.                                       *)
backend_to_drivers ==
  [numpy |-> [diffint |-> "NumpyDiffIntDriver", ds |-> "NumpyDSDriver"],
   numba |-> [diffint |-> "NumbaDiffIntDriver", ds |-> "NumbaDSDriver"],
   jax |-> [diffint |-> "JaxDiffIntDriver", ds |-> "JaxDSDriver"]]

(* The names use_backend and the driver getters are tried with.            *)
BackendArgs ==
  {PyStr(n) : n \in {"numpy", "numba", "jax", "Numpy", "tensorflow", ""}}
    \cup {PyNone}

Returned(op, arg, val) == [op |-> op, arg |-> arg, kind |-> "ok", val |-> val]

Raised(op, arg, type, msg) ==
  [op |-> op, arg |-> arg, kind |-> "raise", val |-> Py(type, msg)]

IsAnything(x) == TRUE

(* isinstance(dt, float), line 24: bool and int are not floats.            *)
isinstance_float(x) == x.type = "float"

(* set_dt(dt), lines 16-26.                                                *)
set_dt ==
  /\ \E x \in DtArgs :
       IF isinstance_float(x)
         THEN dt' = x /\ got' = Returned("set_dt", x, PyNone)
       ELSE dt' = dt /\ got' = Raised("set_dt", x, "AssertionError", "")
  /\ UNCHANGED <<BACKEND_NAME, args, syn, ST, pre, post, net, hist, model>>
  /\ UNCHANGED sumVars

(* get_dt(), lines 29-37.                                                  *)
get_dt ==
  /\ got' = Returned("get_dt", PyNone, dt)
  /\ UNCHANGED <<BACKEND_NAME, dt, args, syn, ST, pre, post, net, hist, model>>
  /\ UNCHANGED sumVars

(* get_backend_name(), lines 89-97.                                        *)
get_backend_name ==
  /\ got' = Returned("get_backend_name", PyNone, PyStr(BACKEND_NAME))
  /\ UNCHANGED <<BACKEND_NAME, dt, args, syn, ST, pre, post, net, hist, model>>
  /\ UNCHANGED sumVars

(* _backend_to_drivers[backend][kind] with backend the argument, or the    *)
(* current backend name for None (lines 69-72, 83-86).                     *)
get_driver(op, kind, backend) ==
  LET key == IF backend = PyNone THEN BACKEND_NAME ELSE backend.repr
  IN  IF key \in DOMAIN backend_to_drivers
        THEN Returned(op, backend, Py("type", backend_to_drivers[key][kind]))
      ELSE Raised(op, backend, "KeyError", key)

(* get_ds_driver(backend=None), lines 61-72.                               *)
get_ds_driver ==
  /\ \E backend \in BackendArgs : got' = get_driver("get_ds_driver", "ds", backend)
  /\ UNCHANGED <<BACKEND_NAME, dt, args, syn, ST, pre, post, net, hist, model>>
  /\ UNCHANGED sumVars

(* get_diffint_driver(backend=None), lines 75-86.                          *)
get_diffint_driver ==
  /\ \E backend \in BackendArgs :
       got' = get_driver("get_diffint_driver", "diffint", backend)
  /\ UNCHANGED <<BACKEND_NAME, dt, args, syn, ST, pre, post, net, hist, model>>
  /\ UNCHANGED sumVars

AnyName(name) == TRUE

(* Lines 103-114: the names that have a backend module.                    *)
KnownBackend(name) == name \in {PyStr("numpy"), PyStr("numba"), PyStr("jax")}

(* use_backend(name), lines 100-124.  The operations copied into the       *)
(* module's globals (lines 120-124) are names of the array library; names  *)
(* starting with an underscore, __dt among them, are not copied.           *)
use_backend ==
  /\ \E name \in BackendArgs :
       IF KnownBackend(name)
         THEN /\ BACKEND_NAME' = name.repr
              /\ got' = Returned("use_backend", name, PyNone)
       ELSE /\ BACKEND_NAME' = BACKEND_NAME
            /\ got' = Raised("use_backend", name, "ValueError", "Unknown backend")
  /\ UNCHANGED <<dt, args, syn, ST, pre, post, net, hist, model>>
  /\ UNCHANGED sumVars

(* The delays SynConn is constructed with under a float dt.                *)
DelayFloats == {"0.0", "0.3", "0.9", "1.0", "2.0"}

(* The module as imported, and the arguments of a SynConn that is not yet  *)
(* constructed: one synapse without groups as in run_ampa_group            *)
(* (AMPA_synapses.py line 132), with every kind of delay.                  *)
InitConfig ==
  /\ IdleSum
  /\ IdleCfg
  /\ dt = InitialDt
  /\ model = "ampa1"
  /\ \E delay \in {NoDelay, OtherDelay} \cup {FloatDelay(r) : r \in DelayFloats} :
       args = Args(0, 0, NoConn, Num(BigOf(1)), delay, 0)
  /\ syn = Unbuilt
  /\ ST = NoST
  /\ pre = NoGroup
  /\ post = NoGroup
  /\ net = NoNet
  /\ hist = NoHist

NextConfig ==
  \/ Construct
  \/ set_dt
  \/ get_dt
  \/ get_backend_name
  \/ get_ds_driver
  \/ get_diffint_driver
  \/ use_backend

SpecConfig == InitConfig /\ [][NextConfig]_vars

-----------------------------------------------------------------------------
(* Claims about brainpy.math's configuration                               *)

(* The configuration function `op` has just been called.                   *)
Called(op) == got' # got /\ got'.op = op

Supported == {"numpy", "numba", "jax"}

(* The drivers registered for a supported name.                            *)
DsDriverFor(name) ==
  CASE name = "numpy" -> "NumpyDSDriver"
    [] name = "numba" -> "NumbaDSDriver"
    [] name = "jax" -> "JaxDSDriver"

DiffIntDriverFor(name) ==
  CASE name = "numpy" -> "NumpyDiffIntDriver"
    [] name = "numba" -> "NumbaDiffIntDriver"
    [] name = "jax" -> "JaxDiffIntDriver"

(* C13: use_backend(name) with a name other than 'numpy', 'numba', 'jax'   *)
(* raises ValueError and leaves BACKEND_NAME as it was; with one of the    *)
(* three it returns and BACKEND_NAME is name, so that get_backend_name()   *)
(* returns it and get_ds_driver() / get_diffint_driver() without argument  *)
(* return the drivers registered for it.  BACKEND_NAME is always one of    *)
(* the three names.                                                        *)
C13_BackendSwitch ==
  /\ [](BACKEND_NAME \in Supported)
  /\ [][Called("use_backend") =>
          IF got'.arg.type = "str" /\ got'.arg.repr \in Supported
            THEN got'.kind = "ok" /\ BACKEND_NAME' = got'.arg.repr
          ELSE /\ got'.kind = "raise" /\ got'.val.type = "ValueError"
               /\ BACKEND_NAME' = BACKEND_NAME]_vars
  /\ [][BACKEND_NAME' # BACKEND_NAME => Called("use_backend")]_vars
  /\ [](got.op = "get_backend_name" => got.val = PyStr(BACKEND_NAME))
  /\ []((got.op = "get_ds_driver" /\ got.arg = PyNone) =>
          (got.kind = "ok" /\ got.val.repr = DsDriverFor(BACKEND_NAME)))
  /\ []((got.op = "get_diffint_driver" /\ got.arg = PyNone) =>
          (got.kind = "ok" /\ got.val.repr = DiffIntDriverFor(BACKEND_NAME)))

(* After use_backend('jax'), get_ds_driver() returns the jax driver.       *)
C13_Witness ==
  /\ BACKEND_NAME = "jax"
  /\ got = Returned("get_ds_driver", PyNone, Py("type", "JaxDSDriver"))

(* C14: dt is 0.1 after the import; set_dt(x) with a float x returns and   *)
(* makes dt x, with any other x it raises AssertionError and leaves dt as  *)
(* it was; nothing but a set_dt that returns changes dt (not use_backend,  *)
(* get_backend_name, get_ds_driver, get_diffint_driver); get_dt() returns  *)
(* dt.                                                                     *)
C14_DtSetAndGet ==
  /\ dt = PyFloat("0.1")
  /\ [][Called("set_dt") =>
          IF got'.arg.type = "float"
            THEN got'.kind = "ok" /\ dt' = got'.arg
          ELSE /\ got'.kind = "raise" /\ got'.val.type = "AssertionError"
               /\ dt' = dt]_vars
  /\ [][dt' # dt => (Called("set_dt") /\ got'.kind = "ok")]_vars
  /\ [](got.op = "get_dt" => (got.kind = "ok" /\ got.val = dt))
  /\ [](dt.type = "float")

(* After set_dt(0.3) and use_backend('numba'), get_dt() returns 0.3.       *)
C14_Witness ==
  /\ dt = PyFloat("0.3")
  /\ BACKEND_NAME = "numba"
  /\ got = Returned("get_dt", PyNone, PyFloat("0.3"))

-----------------------------------------------------------------------------
(* Claims about post_cond_by_post2syn and the conduction delay             *)

(* The sum of syn_val over the synapse indices listed in idx.              *)
RECURSIVE SumAt(_, _)
SumAt(syn_val, idx) ==
  IF idx = <<>> THEN 0 ELSE syn_val[Head(idx) + 1] + SumAt(syn_val, Tail(idx))

(* C15: whenever an output step has called                                 *)
(* post_cond_by_post2syn(syn_val, post2syn), the call returns one entry    *)
(* per postsynaptic neuron, entry j the sum of syn_val[k] over the k of    *)
(* post2syn[j]: 0 for a neuron without synapse, the sum of all of them for *)
(* a neuron with several.                                                  *)
C15_PostCondSums ==
  (Built /\ syn.wired /\ hist.pulled # <<>>) =>
    LET syn_val == hist.pulled[Len(hist.pulled)]
    IN  post_cond_by_post2syn(syn_val, syn.post2syn)
          = Ok([j \in DOMAIN syn.post2syn |-> SumAt(syn_val, syn.post2syn[j])])

(* The constructor has just run.                                           *)
Constructed == syn.status = "unbuilt" /\ syn'.status # "unbuilt"

(* The float delay given to the constructor and the dt it read, as two     *)
(* naturals upon a common power of two.                                    *)
DelayOverDt ==
  LET x == Float64(args.delay.val)
      y == Float64(dt.repr)
      d == x.e - y.e
  IN  [delay |-> NatShl(x.m, IF d > 0 THEN d ELSE 0),
       dt |-> NatShl(y.m, IF d < 0 THEN -d ELSE 0)]

(* n * dt >= delay, and n = 0 or (n - 1) * dt < delay, in exact            *)
(* arithmetic: together, n = ceil(delay / dt).                             *)
CoversDelay(n) == ~NatLess(NatMulSmall(DelayOverDt.dt, n), DelayOverDt.delay)

NotMoreThanNeeded(n) ==
  n = 0 \/ NatLess(NatMulSmall(DelayOverDt.dt, n - 1), DelayOverDt.delay)

(* n * dt falls short of delay by at most delay / 2^53.                    *)
CoversDelayRounded(n) ==
  \/ CoversDelay(n)
  \/ ~NatLess(NatShr(DelayOverDt.delay, 53),
              NatSub(DelayOverDt.delay, NatMulSmall(DelayOverDt.dt, n)))

(* What holds of the constructor whatever the rounding: no delay gives     *)
(* delay_len 0, a delay that is not a number fails, the state container is *)
(* made with delay_len, and delay_len stays when dt is set afterwards.     *)
DelayLenFixed ==
  /\ [][Constructed =>
          CASE args.delay.kind = "none" -> syn'.status = "ok" /\ syn'.delay_len = 0
            [] args.delay.kind = "other" -> syn'.status = "error"
            [] OTHER -> syn'.status = "ok" /\ syn'.delay_len >= 0]_vars
  /\ [][syn.status = "ok" => (syn' = syn /\ ST'.ring = ST.ring)]_vars
  /\ [](Built => (ST.ring = syn.delay_len + 1
                   /\ Len(ST.cond_delay) = syn.delay_len + 1))

=============================================================================
